---- MODULE Spec2Model ----
(***************************************************************************)
(* A model of the Texas Hold'em simulator: Card/Deck (poker/deck.py),      *)
(* Player and AIPokerPlayer (poker/player.py) and PokerGame                *)
(* (poker/engine.py).                                                      *)
(*                                                                         *)
(* Three specifications share the variables:                               *)
(*   SpecDeck    the Deck API driven by an arbitrary caller                *)
(*   SpecPlayer  the Player action methods driven by an arbitrary caller   *)
(*   Spec        PokerGame.play_hand, one step of its body per action      *)
(*                                                                         *)
(* Chips are integers.  Floats are kept exact: aggression and the uniform  *)
(* draw are hundredths, a hand strength is a fraction <<num, den>>.        *)
(***************************************************************************)
EXTENDS Integers, Sequences, FiniteSets, TLC

VARIABLES
    deck,            \* Deck.cards: the remaining cards, top first
    dealt,           \* ghost: every card a deal returned since the last reset, in order
    burned,          \* ghost: every card burn_card removed since the last reset
    lastCall,        \* ghost: the last API call, its argument, the state before it, its result
    ncalls,          \* ghost: number of API calls made (bounds SpecDeck and SpecPlayer)
    players,         \* PokerGame.players: a sequence of Player records
    small_blind,     \* PokerGame.small_blind
    big_blind,       \* PokerGame.big_blind
    ante,            \* PokerGame.ante
    community_cards, \* PokerGame.community_cards
    pot,             \* PokerGame.pot
    current_bet,     \* PokerGame.current_bet
    hand_history,    \* PokerGame.hand_history: a sequence of PlayerAction records
    pc,              \* position in play_hand
    seat,            \* index of the for loop of betting_round
    round_start,     \* ghost: Len(hand_history) when the running betting_round was entered
    scores,          \* the oracle's score of each player's hand on the 5-card board (0: not evaluated)
    winners,         \* play_hand's local `winners`: a sequence of seats
    pot_amount,      \* play_hand's local `pot_amount`
    stacks_before,   \* ghost: the stacks when play_hand was entered
    blind_schedule,  \* Tournament.blind_schedule: a sequence of <<small blind, big blind>>
    blind_level,     \* Tournament.run's local `blind_level`
    hands_played,    \* Tournament.hands_played
    busted,          \* the Player records of Tournament.players dropped from active_players
    run_pc,          \* position in Tournament.run
    winner,          \* the name Tournament.run returned (0: nothing returned yet)
    equity           \* the frame of a calculate_equity call: arguments, locals, outcome

vars == <<deck, dealt, burned, lastCall, ncalls, players, small_blind, big_blind, ante,
          community_cards, pot, current_bet, hand_history, pc, seat, round_start,
          scores, winners, pot_amount, stacks_before, blind_schedule, blind_level,
          hands_played, busted, run_pc, winner, equity>>

deckVars == <<deck, dealt, burned>>
tourVars == <<blind_schedule, blind_level, hands_played, busted, run_pc, winner>>
gameVars == <<small_blind, big_blind, ante, community_cards, pot, current_bet,
              hand_history, pc, seat, round_start, scores, winners, pot_amount,
              stacks_before, tourVars, equity>>

----------------------------------------------------------------------------
(* Sequences *)

RECURSIVE SumSeq(_)
SumSeq(s) == IF s = <<>> THEN 0 ELSE Head(s) + SumSeq(Tail(s))

Range(s) == {s[i] : i \in DOMAIN s}

NoDuplicates(s) == \A i, j \in DOMAIN s : i # j => s[i] # s[j]

Min(a, b) == IF a <= b THEN a ELSE b
Max(a, b) == IF a >= b THEN a ELSE b

\* Python's s[:n] and s[n:] for any integer n (a negative n counts from the end).
SliceIndex(s, n) == IF n >= 0 THEN Min(n, Len(s)) ELSE Max(Len(s) + n, 0)
PyPrefix(s, n) == SubSeq(s, 1, SliceIndex(s, n))
PySuffix(s, n) == SubSeq(s, SliceIndex(s, n) + 1, Len(s))

----------------------------------------------------------------------------
(* poker/deck.py: Suit, Rank, Card *)

Suits == <<"h", "d", "c", "s">>
Ranks == <<2, 3, 4, 5, 6, 7, 8, 9, 10, 11, 12, 13, 14>>

Card(rank, suit) == [rank |-> rank, suit |-> suit]

\* str.upper() / str.lower() on the characters of the model
Upper(ch) ==
    CASE ch = "a" -> "A" [] ch = "k" -> "K" [] ch = "q" -> "Q" [] ch = "j" -> "J"
      [] ch = "t" -> "T" [] ch = "h" -> "H" [] ch = "d" -> "D" [] ch = "c" -> "C"
      [] ch = "s" -> "S" [] ch = "x" -> "X" [] OTHER -> ch
Lower(ch) ==
    CASE ch = "A" -> "a" [] ch = "K" -> "k" [] ch = "Q" -> "q" [] ch = "J" -> "j"
      [] ch = "T" -> "t" [] ch = "H" -> "h" [] ch = "D" -> "d" [] ch = "C" -> "c"
      [] ch = "S" -> "s" [] ch = "X" -> "x" [] OTHER -> ch

\* Card.from_string: rank_map and suit_map (a Suit is modelled by its value)
rank_map ==
    [ch \in {"2", "3", "4", "5", "6", "7", "8", "9", "T", "J", "Q", "K", "A"} |->
        CASE ch = "2" -> 2 [] ch = "3" -> 3 [] ch = "4" -> 4 [] ch = "5" -> 5
          [] ch = "6" -> 6 [] ch = "7" -> 7 [] ch = "8" -> 8 [] ch = "9" -> 9
          [] ch = "T" -> 10 [] ch = "J" -> 11 [] ch = "Q" -> 12 [] ch = "K" -> 13
          [] ch = "A" -> 14]
suit_map == [ch \in {"h", "d", "c", "s"} |-> ch]

\* Card.__str__: rank_chars
rank_chars ==
    [r \in 2..14 |->
        CASE r = 2 -> "2" [] r = 3 -> "3" [] r = 4 -> "4" [] r = 5 -> "5"
          [] r = 6 -> "6" [] r = 7 -> "7" [] r = 8 -> "8" [] r = 9 -> "9"
          [] r = 10 -> "T" [] r = 11 -> "J" [] r = 12 -> "Q" [] r = 13 -> "K"
          [] r = 14 -> "A"]

\* No Card object: what a call that raised ValueError leaves the caller with.
NoCard == [rank |-> 0, suit |-> ""]

\* Card.from_string; a string is a sequence of characters
FromString(card_str) ==
    IF Len(card_str) # 2
    THEN [raised |-> TRUE, error |-> "Invalid card string", card |-> NoCard]
    ELSE LET rank_char == Upper(card_str[1])
             suit_char == Lower(card_str[2])
         IN  IF rank_char \notin DOMAIN rank_map
             THEN [raised |-> TRUE, error |-> "Invalid rank", card |-> NoCard]
             ELSE IF suit_char \notin DOMAIN suit_map
             THEN [raised |-> TRUE, error |-> "Invalid suit", card |-> NoCard]
             ELSE [raised |-> FALSE, error |-> "",
                   card |-> Card(rank_map[rank_char], suit_map[suit_char])]

\* Card.__str__
StrSuitFirst(card) == <<card.suit, rank_chars[card.rank]>>
Str(card) == <<rank_chars[card.rank], card.suit>>

AllCards == {Card(Ranks[r], Suits[s]) : r \in DOMAIN Ranks, s \in DOMAIN Suits}

\* Deck.reset: for suit in Suit: for rank in Rank: append Card(rank, suit)
FreshDeck ==
    [i \in 1..(Len(Suits) * Len(Ranks)) |->
        Card(Ranks[((i - 1) % Len(Ranks)) + 1], Suits[((i - 1) \div Len(Ranks)) + 1])]

(***************************************************************************)
(* Deck.shuffle is random.shuffle: any permutation of the remaining cards. *)
(* The model draws the permutation from a small family defined for every   *)
(* length: keep the order, cut the deck after 8 cards, or reverse the deck *)
(* and gather every 13th card (which brings equal ranks of a fresh deck    *)
(* together, aces first).                                                  *)
(***************************************************************************)
Reverse(s) == [i \in 1..Len(s) |-> s[Len(s) + 1 - i]]

Cut(s, k) == IF Len(s) = 0 THEN s
             ELSE SubSeq(s, (k % Len(s)) + 1, Len(s)) \o SubSeq(s, 1, k % Len(s))

RECURSIVE Gather(_, _, _)
Gather(s, k, r) ==
    IF r > k \/ r > Len(s) THEN <<>>
    ELSE [j \in 1..(((Len(s) - r) \div k) + 1) |-> s[r + (j - 1) * k]] \o Gather(s, k, r + 1)

ShuffleChoices == {"keep", "cut", "gather"}

Permute(s, how) ==
    CASE how = "cut"    -> Cut(s, 8)
      [] how = "gather" -> Gather(Reverse(s), Len(Ranks), 1)
      [] OTHER          -> s

\* Deck.deal: the guard, the returned cards and the remaining cards.
DealFailsOffByOne(cards, num_cards) == num_cards > Len(cards) + 1
DealFails(cards, num_cards) == num_cards > Len(cards)
DealtCards(cards, num_cards) == PyPrefix(cards, num_cards)
DealRest(cards, num_cards) == PySuffix(cards, num_cards)

\* Deck.burn_card / Deck.deal_one: pop(0) if the deck is not empty.
PopRest(cards) == IF cards = <<>> THEN cards ELSE Tail(cards)
PopCard(cards) == IF cards = <<>> THEN <<>> ELSE <<Head(cards)>>

----------------------------------------------------------------------------
(* poker/player.py: PlayerAction, Player, AIPokerPlayer *)

None == [action |-> "none"]

PlayerAction(player, action, amount, street) ==
    [player |-> player, action |-> action, amount |-> amount, street |-> street]

\* Player.__init__ / AIPokerPlayer.__init__ (aggression 0.5, in hundredths)
NewPlayer(name, kind, stack) ==
    [name |-> name, kind |-> kind, stack |-> stack, hand |-> <<>>,
     is_active |-> TRUE, is_all_in |-> FALSE, total_bet |-> 0,
     last_action |-> None, aggression |-> 50]

ClearHandKeepsBet(p) ==
    [p EXCEPT !.hand = <<>>, !.is_active = TRUE, !.is_all_in = FALSE,
              !.last_action = None]
ClearHand(p) ==
    [p EXCEPT !.hand = <<>>, !.is_active = TRUE, !.is_all_in = FALSE,
              !.total_bet = 0, !.last_action = None]

\* Each action method returns the PlayerAction it stores in last_action.
Fold(p) ==
    [p EXCEPT !.is_active = FALSE,
              !.last_action = PlayerAction(p.name, "fold", 0, "")]

Check(p) ==
    [p EXCEPT !.last_action = PlayerAction(p.name, "check", 0, "")]

AllIn(p) ==
    [p EXCEPT !.stack = 0, !.total_bet = @ + p.stack, !.is_all_in = TRUE,
              !.last_action = PlayerAction(p.name, "all_in", p.stack, "")]

CallGoesAllIn(p, amount) == amount > p.stack

Call(p, amount) ==
    IF CallGoesAllIn(p, amount) THEN AllIn(p)
    ELSE [p EXCEPT !.stack = @ - amount, !.total_bet = @ + amount,
                   !.last_action = PlayerAction(p.name, "call", amount, "")]

Bet(p, amount) ==
    IF amount >= p.stack THEN AllIn(p)
    ELSE [p EXCEPT !.stack = @ - amount, !.total_bet = @ + amount,
                   !.last_action = PlayerAction(p.name, "bet", amount, "")]

RaiseGoesAllIn(p, amount) == amount >= p.stack

RaiseTo(p, amount) ==
    IF RaiseGoesAllIn(p, amount) THEN AllIn(p)
    ELSE LET call_amount == amount - p.total_bet
         IN  [p EXCEPT !.stack = @ - call_amount, !.total_bet = @ + call_amount,
                       !.last_action = PlayerAction(p.name, "raise", amount, "")]

\* AIPokerPlayer.learn_from_hand, aggression in hundredths
\* (LearnFromHandNoClamp: the same shifts without the min / max clamps)
LearnFromHandNoClamp(p, won, last_action) ==
    IF last_action \in {"bet", "raise", "all_in"}
    THEN [p EXCEPT !.aggression = IF won THEN @ + 5 ELSE @ - 5]
    ELSE IF last_action \in {"fold", "check", "call"}
    THEN [p EXCEPT !.aggression = IF won THEN @ - 2 ELSE @ + 2]
    ELSE p
LearnFromHand(p, won, last_action) ==
    IF last_action \in {"bet", "raise", "all_in"}
    THEN [p EXCEPT !.aggression = IF won THEN Min(100, @ + 5) ELSE Max(0, @ - 5)]
    ELSE IF last_action \in {"fold", "check", "call"}
    THEN [p EXCEPT !.aggression = IF won THEN Max(0, @ - 2) ELSE Min(100, @ + 2)]
    ELSE p

----------------------------------------------------------------------------
(* poker/engine.py: PokerGame *)

Seats == DOMAIN players
Stacks == [i \in Seats |-> players[i].stack]
TotalBets == [i \in Seats |-> players[i].total_bet]

Streets == <<"preflop", "flop", "turn", "river">>
StreetNo(st) == CHOOSE k \in DOMAIN Streets : Streets[k] = st
InBettingRound == pc \in Range(Streets)

(***************************************************************************)
(* The hand-strength oracle (treys.Evaluator) is external.  evaluate       *)
(* returns a score from 1 (best) to OracleWorst, the same for the same     *)
(* board and hand; get_five_card_rank_percentage(score) is                 *)
(* score / OracleWorst.  The model draws scores from OracleScores.         *)
(***************************************************************************)
OracleWorst == 7462
OracleScores == {1, 3000, 7000}

\* random.random(), in hundredths
RandChoices == {0, 99}

\* betting_round, preflop: hand strength from the two hole-card ranks
PreflopStrength(hand) ==
    LET r1 == hand[1].rank
        r2 == hand[2].rank
    IN  IF r1 = r2 /\ r1 >= 10 THEN <<90, 100>>
        ELSE IF Max(r1, r2) >= 12 /\ Min(r1, r2) >= 11 THEN <<80, 100>>
        ELSE IF Max(r1, r2) >= 11 THEN <<60, 100>>
        ELSE <<30, 100>>

\* betting_round, later streets: 1 - percentage(score)
PostflopStrength(score) == <<OracleWorst - score, OracleWorst>>

\* hand_strength + aggression * 0.5 >= t / 100
SignalAtLeast(hs, aggression, t) == 200 * hs[1] + aggression * hs[2] >= 2 * t * hs[2]

\* betting_round: the branch an AI player takes
AIDecisionCallFirst(p, to_call, hs, rand_val) ==
    IF SignalAtLeast(hs, p.aggression, 70) /\ p.stack >= to_call THEN "call"
    ELSE IF SignalAtLeast(hs, p.aggression, 100) /\ to_call = 0 /\ p.stack > 0
            /\ rand_val < p.aggression
    THEN "bet"
    ELSE IF ~SignalAtLeast(hs, p.aggression, 50) /\ to_call > 0 /\ rand_val > p.aggression
    THEN "fold"
    ELSE "check"
AIDecision(p, to_call, hs, rand_val) ==
    IF SignalAtLeast(hs, p.aggression, 100) /\ to_call = 0 /\ p.stack > 0
       /\ rand_val < p.aggression
    THEN "bet"
    ELSE IF SignalAtLeast(hs, p.aggression, 70) /\ p.stack >= to_call THEN "call"
    ELSE IF ~SignalAtLeast(hs, p.aggression, 50) /\ to_call > 0 /\ rand_val > p.aggression
    THEN "fold"
    ELSE "check"

\* betting_round: the branch a plain Player takes
HumanDecisionNeverChecks(p, to_call) ==
    IF to_call > 0 /\ p.stack >= to_call THEN "call" ELSE "fold"
HumanDecision(p, to_call) ==
    IF to_call > 0
    THEN IF p.stack >= to_call THEN "call" ELSE "fold"
    ELSE "check"

\* betting_round: chips the action moves from the player's stack to the pot
ActionAmount(p, kind, to_call) ==
    CASE kind = "bet"  -> Min(IF pot > 0 THEN pot \div 2 ELSE big_blind, p.stack)
      [] kind = "call" -> to_call
      [] OTHER         -> 0

\* post_blinds_and_antes: `min(self.small_blind, sb_player.stack)`, and for the big blind
BlindAmountUncapped(blind, p) == blind
BlindAmount(blind, p) == Min(blind, p.stack)

\* betting_round: the player after the action
ActedPlayerNoDebit(p, kind, amount) ==
    [p EXCEPT !.total_bet = @ + amount,
              !.is_active = IF kind = "fold" THEN FALSE ELSE @]

ActedPlayerNoTotalBet(p, kind, amount) ==
    [p EXCEPT !.stack = @ - amount,
              !.is_active = IF kind = "fold" THEN FALSE ELSE @]

ActedPlayer(p, kind, amount) ==
    [p EXCEPT !.stack = @ - amount, !.total_bet = @ + amount,
              !.is_active = IF kind = "fold" THEN FALSE ELSE @]

\* betting_round: `if not player.is_active or player.is_all_in: continue`
SkipsTurnOnlyAllIn(p) == p.is_all_in
SkipsTurn(p) == ~p.is_active \/ p.is_all_in

\* play_hand: deal_community_cards(3) before the flop, (1) before the turn and the river
CommunityCountAlwaysOne(st) == 1
CommunityCount(st) == IF st = "preflop" THEN 3 ELSE 1

\* play_hand: the betting_round that follows the one of street st
NextStreet(st) == Streets[StreetNo(st) + 1]

\* showdown: the loop over self.players from seat i on
RECURSIVE ShowdownFromDropsTies(_, _, _, _)
ShowdownFromDropsTies(i, best_score, ws, sc) ==
    IF i > Len(players) THEN ws
    ELSE IF ~players[i].is_active THEN ShowdownFromDropsTies(i + 1, best_score, ws, sc)
    ELSE IF best_score = 0 \/ sc[i] <= best_score
         THEN ShowdownFromDropsTies(i + 1, sc[i], <<i>>, sc)
    ELSE ShowdownFromDropsTies(i + 1, best_score, ws, sc)

RECURSIVE ShowdownFromIncludesFolded(_, _, _, _)
ShowdownFromIncludesFolded(i, best_score, ws, sc) ==
    IF i > Len(players) THEN ws
    ELSE IF best_score = 0 \/ sc[i] < best_score
         THEN ShowdownFromIncludesFolded(i + 1, sc[i], <<i>>, sc)
    ELSE IF sc[i] = best_score
         THEN ShowdownFromIncludesFolded(i + 1, best_score, Append(ws, i), sc)
    ELSE ShowdownFromIncludesFolded(i + 1, best_score, ws, sc)

RECURSIVE ShowdownFrom(_, _, _, _)
ShowdownFrom(i, best_score, ws, sc) ==
    IF i > Len(players) THEN ws
    ELSE IF ~players[i].is_active THEN ShowdownFrom(i + 1, best_score, ws, sc)
    ELSE IF best_score = 0 \/ sc[i] < best_score
         THEN ShowdownFrom(i + 1, sc[i], <<i>>, sc)
    ELSE IF sc[i] = best_score
         THEN ShowdownFrom(i + 1, best_score, Append(ws, i), sc)
    ELSE ShowdownFrom(i + 1, best_score, ws, sc)

\* distribute_pot: `share = self.pot // len(winners)`
ShareRoundedUp(p, ws) == (p + Len(ws) - 1) \div Len(ws)
Share(p, ws) == p \div Len(ws)

\* deal_hole_cards: the deck after k calls of deal(n)
RECURSIVE DeckAfterDeals(_, _, _)
DeckAfterDeals(cards, k, n) ==
    IF k = 0 THEN cards ELSE DeckAfterDeals(DealRest(cards, n), k - 1, n)

----------------------------------------------------------------------------
(* poker/analysis.py: calculate_equity *)
(* A treys card is modelled by the Card record of its rank and suit.  treys  *)
(* is a library outside the repository: Card.new raises KeyError for a       *)
(* character outside its rank and suit tables, Deck() is a shuffled deck of  *)
(* 52 cards, and the score the Evaluator returns is left open.               *)

\* parse_hand: `suits = 'cdhs'`
EquitySuits == {"c", "d", "h", "s"}

\* treys Card.new(rank character + suit character); NoCard stands for KeyError
TreysCardNew(rank_char, suit_char) ==
    IF rank_char \in DOMAIN rank_map /\ suit_char \in EquitySuits
    THEN Card(rank_map[rank_char], suit_char)
    ELSE NoCard

\* What parse_hand found: the hole-card pairs one of which is played, or an error.
Parsed(combos) ==
    IF \E h \in combos : NoCard \in Range(h)
    THEN [raised |-> "KeyError", combos |-> {}]
    ELSE [raised |-> "", combos |-> combos]

\* parse_hand(hand_str)
ParseHand(hand_str) ==
    IF Len(hand_str) = 4
    THEN Parsed({<<TreysCardNew(hand_str[1], hand_str[2]),
                   TreysCardNew(hand_str[3], hand_str[4])>>})
    ELSE IF Len(hand_str) = 2
    THEN \* `if s == 's'` and its else branch build the same list
         Parsed({<<TreysCardNew(hand_str[1], s1), TreysCardNew(hand_str[1], s2)>> :
                    <<s1, s2>> \in {q \in EquitySuits \X EquitySuits : q[1] # q[2]}})
    ELSE IF Len(hand_str) = 3
    THEN IF hand_str[3] = "s"
         THEN Parsed({<<TreysCardNew(hand_str[1], s), TreysCardNew(hand_str[2], s)>> :
                         s \in EquitySuits})
         ELSE Parsed({<<TreysCardNew(hand_str[1], s1), TreysCardNew(hand_str[2], s2)>> :
                         <<s1, s2>> \in {q \in EquitySuits \X EquitySuits : q[1] # q[2]}})
    ELSE [raised |-> "ValueError", combos |-> {}]

\* `for c in h: if c in deck.cards: deck.cards.remove(c)`
RemoveHoleCards(cards, h) == SelectSeq(cards, LAMBDA c : c \notin Range(h))

\* `board = [deck.draw(1)[0] for _ in range(5)]`
Board(cards) == SubSeq(cards, 1, 5)

\* `if score1 < score2: wins += 1 / elif score1 == score2: ties += 1`
TallyLossAsTie(tally, score1, score2) ==
    IF score1 < score2 THEN [tally EXCEPT !.wins = @ + 1]
    ELSE [tally EXCEPT !.ties = @ + 1]
Tally(tally, score1, score2) ==
    IF score1 < score2 THEN [tally EXCEPT !.wins = @ + 1]
    ELSE IF score1 = score2 THEN [tally EXCEPT !.ties = @ + 1]
    ELSE tally

\* `(wins + 0.5 * ties) / iterations`, as the fraction <<numerator, denominator>>
EquityResult(wins, ties, iterations) == <<2 * wins + ties, 2 * iterations>>

----------------------------------------------------------------------------
(* poker/engine.py: Tournament *)

\* Tournament.run: `hands_per_level = 20`
HandsPerLevel == 20

\* [p for p in self.active_players if p.stack > 0]
SolventKeepsAll(ps) == ps
Solvent(ps) == SelectSeq(ps, LAMBDA p : p.stack > 0)

\* The players the filter of run drops from active_players.
Dropped(ps) == SelectSeq(ps, LAMBDA p : ~(p.stack > 0))

\* self.blind_schedule[min(blind_level, len(self.blind_schedule)-1)], 1-based
LevelInUse(schedule, level) == schedule[Min(level, Len(schedule) - 1) + 1]

\* if self.hands_played % hands_per_level == 0: blind_level += 1
NextBlindLevelEveryHand(level, played) == level + 1
NextBlindLevel(level, played) ==
    IF played % HandsPerLevel = 0 THEN level + 1 ELSE level

\* winner = [p for p in self.active_players if p.stack > 0][0]
\* (indexing an empty list raises IndexError)
WinnerFirstSeat(ps) == ps[1].name
Winner(ps) == IF Solvent(ps) = <<>> THEN "IndexError" ELSE Solvent(ps)[1].name

----------------------------------------------------------------------------
(* Bounds and inputs *)

MaxDeckCalls == 4
MaxPlayerCalls == 3

MaxAI == 2

SeatCounts == {1, 2, 3}
KindChoices == {"human", "ai"}
StackChoices == {5, 1000}
AnteChoices == {0, 10}
DealChoices == {-1, 0, 2, 3, 50, 53}
ApiStackChoices == {50, 100}
AmountChoices == {0, 20, 50, 60, 100}

MaxLearnCalls == 2
AggressionChoices == {0, 100}
LastActionChoices == {"bet", "raise", "all_in", "fold", "check", "call", "muck"}
MaxHands == 41
TournamentEntries == {<<2, 20>>, <<2, 40>>, <<3, 20>>}
BlindSchedules == { << <<10, 20>> >>, << <<10, 20>>, <<20, 40>> >> }
MaxCardCalls == 3
StringLengths == {0, 1, 2, 3}
CardChars == {"2", "3", "4", "5", "6", "7", "8", "9", "T", "J", "Q", "K", "A",
              "a", "k", "t", "h", "d", "c", "s", "H", "S", "x", "1", "0"}
RECURSIVE StringsOfLen(_)
StringsOfLen(n) ==
    IF n = 0 THEN {<<>>}
    ELSE {Append(s, ch) : s \in StringsOfLen(n - 1), ch \in CardChars}
CardStrings == UNION {StringsOfLen(n) : n \in StringLengths}
\* calculate_equity arguments: every pair of descriptors for no or one
\* iteration, the short-listed descriptors for two
RepeatedHands ==
    { <<"A", "h", "K", "h">>, <<"Q", "d", "Q", "c">>, <<"A", "K", "s">> }
EquityHands ==
    { <<"A", "h", "K", "h">>, <<"Q", "d", "Q", "c">>, <<"A", "h", "Q", "d">>,
      <<"A", "K", "s">>, <<"A", "K", "o">>, <<"Q", "Q">>, <<"A", "K">>,
      <<"A", "A", "s">>, <<"A", "h", "K">>, <<"X", "h", "K", "h">>,
      <<"A">>, <<"A", "h", "K", "h", "Q">>, <<>> }
EquityQueries ==
    (EquityHands \X EquityHands \X {0, 1}) \cup (RepeatedHands \X RepeatedHands \X {2})
\* Player.__init__: `stack: int = 1000`
DefaultStack == 1000

\* PokerGame.__init__ defaults
DefaultSmallBlind == 10
DefaultBigBlind == 20

\* Deck.__init__: a fresh deck; nothing dealt or burned yet
DeckConstructed ==
    /\ deck = FreshDeck
    /\ dealt = <<>>
    /\ burned = <<>>

\* PokerGame.__init__: the fields of a game before play_hand is called
GameConstructed ==
    /\ community_cards = <<>>
    /\ pot = 0
    /\ current_bet = 0
    /\ hand_history = <<>>
    /\ pc = "idle"
    /\ seat = 0
    /\ round_start = 0
    /\ scores = <<>>
    /\ winners = <<>>
    /\ pot_amount = 0
    /\ stacks_before = <<>>

\* SpecDeck and SpecPlayer drive no game: its fields keep their constructed values.
\* calculate_equity has not been called.
NoQuery == [pc |-> "none"]

\* No Tournament object exists.
NoTournament ==
    /\ blind_schedule = <<>>
    /\ blind_level = 0
    /\ hands_played = 0
    /\ busted = <<>>
    /\ run_pc = "none"
    /\ winner = 0

NoGame ==
    /\ GameConstructed
    /\ NoTournament
    /\ equity = NoQuery
    /\ small_blind = DefaultSmallBlind
    /\ big_blind = DefaultBigBlind
    /\ ante = 0

----------------------------------------------------------------------------
(* SpecDeck: the Deck API *)

InitDeck ==
    /\ DeckConstructed
    /\ NoGame
    /\ players = <<>>
    /\ lastCall = [op |-> "Deck"]
    /\ ncalls = 0

DeckCall(op, arg, returned, raised) ==
    /\ ncalls < MaxDeckCalls
    /\ ncalls' = ncalls + 1
    /\ lastCall' = [op |-> op, arg |-> arg, cards |-> deck,
                    returned |-> returned, raised |-> raised]
    /\ UNCHANGED <<players, gameVars>>

DeckReset ==
    /\ DeckCall("reset", 0, <<>>, FALSE)
    /\ deck' = FreshDeck
    /\ dealt' = <<>>
    /\ burned' = <<>>

DeckShuffle ==
    \E how \in ShuffleChoices :
        /\ DeckCall("shuffle", 0, <<>>, FALSE)
        /\ deck' = Permute(deck, how)
        /\ UNCHANGED <<dealt, burned>>

DeckDeal ==
    \E n \in DealChoices :
        IF DealFails(deck, n)
        THEN /\ DeckCall("deal", n, <<>>, TRUE)
             /\ UNCHANGED <<deck, dealt, burned>>
        ELSE /\ DeckCall("deal", n, DealtCards(deck, n), FALSE)
             /\ deck' = DealRest(deck, n)
             /\ dealt' = dealt \o DealtCards(deck, n)
             /\ UNCHANGED burned

DeckDealOne ==
    /\ DeckCall("deal_one", 0, PopCard(deck), FALSE)
    /\ deck' = PopRest(deck)
    /\ dealt' = dealt \o PopCard(deck)
    /\ UNCHANGED burned

DeckBurnCard ==
    /\ DeckCall("burn_card", 0, <<>>, FALSE)
    /\ deck' = PopRest(deck)
    /\ burned' = burned \o PopCard(deck)
    /\ UNCHANGED dealt

NextDeck == DeckReset \/ DeckShuffle \/ DeckDeal \/ DeckDealOne \/ DeckBurnCard

SpecDeck == InitDeck /\ [][NextDeck]_vars

----------------------------------------------------------------------------
(* SpecCard: Card.from_string and str(card), applied in turn to a string or *)
(* to one of the 52 cards                                                   *)

InitCard ==
    /\ deck = <<>>
    /\ dealt = <<>>
    /\ burned = <<>>
    /\ NoGame
    /\ players = <<>>
    /\ \/ \E s \in CardStrings :
             lastCall = [op |-> "input", raised |-> FALSE, returned |-> s]
       \/ \E c \in AllCards :
             lastCall = [op |-> "Card", raised |-> FALSE, returned |-> c]
    /\ ncalls = 0

\* Card.from_string(s) on the input string or on the string str returned
CardFromString ==
    /\ ncalls < MaxCardCalls
    /\ lastCall.op \in {"input", "str"}
    /\ LET result == FromString(lastCall.returned)
       IN  lastCall' = [op |-> "from_string", arg |-> lastCall.returned,
                        raised |-> result.raised, error |-> result.error,
                        returned |-> result.card, before |-> lastCall]
    /\ ncalls' = ncalls + 1
    /\ UNCHANGED <<deckVars, players, gameVars>>

\* str(card) on the card the last call produced
CardStr ==
    /\ ncalls < MaxCardCalls
    /\ lastCall.op \in {"Card", "from_string"}
    /\ ~lastCall.raised
    /\ lastCall' = [op |-> "str", arg |-> lastCall.returned, raised |-> FALSE,
                    returned |-> Str(lastCall.returned), before |-> lastCall]
    /\ ncalls' = ncalls + 1
    /\ UNCHANGED <<deckVars, players, gameVars>>

NextCard ==
    \/ CardFromString
    \/ CardStr

SpecCard == InitCard /\ [][NextCard]_vars

----------------------------------------------------------------------------
(* SpecPlayer: the Player action methods *)

InitPlayer ==
    /\ deck = <<>>
    /\ dealt = <<>>
    /\ burned = <<>>
    /\ NoGame
    /\ \E stack \in ApiStackChoices :
           players = <<NewPlayer(1, "human", stack)>>
    /\ lastCall = [op |-> "Player"]
    /\ ncalls = 0

PlayerCall(op, arg, after) ==
    /\ ncalls < MaxPlayerCalls
    /\ ncalls' = ncalls + 1
    /\ lastCall' = [op |-> op, arg |-> arg, before |-> players[1],
                    returned |-> after.last_action]
    /\ players' = <<after>>
    /\ UNCHANGED <<deckVars, gameVars>>

PlayerFold == PlayerCall("fold", 0, Fold(players[1]))
PlayerCheck == PlayerCall("check", 0, Check(players[1]))
PlayerCallBet == \E a \in AmountChoices : PlayerCall("call", a, Call(players[1], a))
PlayerBet == \E a \in AmountChoices : PlayerCall("bet", a, Bet(players[1], a))
PlayerRaiseTo == \E a \in AmountChoices : PlayerCall("raise_to", a, RaiseTo(players[1], a))
PlayerAllIn == PlayerCall("all_in", 0, AllIn(players[1]))

NextPlayer ==
    PlayerFold \/ PlayerCheck \/ PlayerCallBet \/ PlayerBet \/ PlayerRaiseTo \/ PlayerAllIn

SpecPlayer == InitPlayer /\ [][NextPlayer]_vars

----------------------------------------------------------------------------
(* Spec: PokerGame.play_hand *)

Init ==
    /\ DeckConstructed
    /\ GameConstructed
    /\ NoTournament
    /\ equity = NoQuery
    /\ \E n \in SeatCounts :
       \E kinds \in [1..n -> KindChoices], stks \in [1..n -> StackChoices] :
           /\ Cardinality({i \in 1..n : kinds[i] = "ai"}) <= MaxAI
           /\ players = [i \in 1..n |-> NewPlayer(i, kinds[i], stks[i])]
    /\ small_blind = DefaultSmallBlind
    /\ big_blind = DefaultBigBlind
    /\ ante \in AnteChoices
    /\ lastCall = [op |-> "PokerGame"]
    /\ ncalls = 0

\* play_hand is entered: reset_hand
ResetHand ==
    /\ pc = "idle"
    /\ stacks_before' = Stacks
    /\ deck' = FreshDeck
    /\ dealt' = <<>>
    /\ burned' = <<>>
    /\ community_cards' = <<>>
    /\ pot' = 0
    /\ hand_history' = <<>>
    /\ current_bet' = 0
    /\ players' = [i \in Seats |-> ClearHand(players[i])]
    /\ scores' = [i \in Seats |-> 0]
    /\ winners' = <<>>
    /\ pot_amount' = 0
    /\ round_start' = 0
    /\ seat' = 0
    /\ pc' = "deal"
    /\ UNCHANGED <<tourVars, equity, small_blind, big_blind, ante, lastCall, ncalls>>

DealHoleCards ==
    /\ pc = "deal"
    /\ \E how \in ShuffleChoices :
        LET shuffled == Permute(deck, how)
            before(i) == DeckAfterDeals(shuffled, i - 1, 2)
        IN  /\ ~DealFails(before(Len(players)), 2)
            /\ players' = [i \in Seats |->
                              [players[i] EXCEPT !.hand = DealtCards(before(i), 2)]]
            /\ deck' = DeckAfterDeals(shuffled, Len(players), 2)
            /\ dealt' = dealt \o SubSeq(shuffled, 1, 2 * Len(players))
    /\ pc' = "blinds"
    /\ UNCHANGED <<burned, lastCall, ncalls, tourVars, equity, small_blind, big_blind, ante,
                   community_cards, pot, current_bet, hand_history, seat,
                   round_start, scores, winners, pot_amount, stacks_before>>

\* post_blinds_and_antes, then betting_round("preflop") is entered
PostBlindsAndAntes ==
    /\ pc = "blinds"
    /\ LET anted == IF ante > 0
                    THEN [i \in Seats |-> [players[i] EXCEPT !.stack = @ - ante]]
                    ELSE players
           ante_pot == IF ante > 0 THEN pot + ante * Len(players) ELSE pot
       IN  IF Len(players) > 1
           THEN LET sb_amt == BlindAmount(small_blind, anted[1])
                    bb_amt == BlindAmount(big_blind, anted[2])
                IN  /\ players' = [anted EXCEPT
                                     ![1].stack = @ - sb_amt,
                                     ![2].stack = @ - bb_amt,
                                     ![1].total_bet = @ + sb_amt,
                                     ![2].total_bet = @ + bb_amt]
                    /\ pot' = ante_pot + sb_amt + bb_amt
                    /\ current_bet' = bb_amt
                    /\ hand_history' = hand_history \o
                           << PlayerAction(1, "bet", sb_amt, "preflop"),
                              PlayerAction(2, "bet", bb_amt, "preflop") >>
           ELSE /\ players' = anted
                /\ pot' = ante_pot
                /\ UNCHANGED <<current_bet, hand_history>>
    /\ pc' = "preflop"
    /\ seat' = 1
    /\ round_start' = Len(hand_history')
    /\ UNCHANGED <<deckVars, lastCall, ncalls, tourVars, equity, small_blind, big_blind, ante,
                   community_cards, scores, winners, pot_amount, stacks_before>>

\* betting_round: one iteration of `for player in self.players`, for the score
\* the evaluator returns and the number random.random() draws
BettingVisitWith(score, rand_val) ==
    /\ InBettingRound
    /\ seat <= Len(players)
    /\ LET player == players[seat]
           to_call == current_bet - player.total_bet
           is_ai == player.kind = "ai"
           known == pc = "river" /\ scores[seat] # 0
           evaluated == IF ~is_ai \/ pc = "preflop" \/ SkipsTurn(player) THEN {0}
                        ELSE IF known THEN {scores[seat]}
                        ELSE OracleScores
           draws == IF is_ai /\ ~SkipsTurn(player) THEN RandChoices ELSE {0}
       IN  /\ score \in evaluated
           /\ rand_val \in draws
           /\ IF SkipsTurn(player)
               THEN UNCHANGED <<players, pot, current_bet, hand_history, scores>>
               ELSE LET hand_strength == IF pc = "preflop"
                                         THEN PreflopStrength(player.hand)
                                         ELSE PostflopStrength(score)
                        kind == IF is_ai
                                THEN AIDecision(player, to_call, hand_strength, rand_val)
                                ELSE HumanDecision(player, to_call)
                        amount == ActionAmount(player, kind, to_call)
                        acted == ActedPlayer(player, kind, amount)
                    IN  /\ players' = [players EXCEPT ![seat] = acted]
                        /\ pot' = pot + amount
                        /\ current_bet' = IF kind = "bet"
                                          THEN Max(current_bet, acted.total_bet)
                                          ELSE current_bet
                        /\ hand_history' = Append(hand_history,
                                                  PlayerAction(seat, kind, amount, pc))
                        /\ scores' = IF pc = "river" /\ is_ai
                                     THEN [scores EXCEPT ![seat] = score]
                                     ELSE scores
    /\ seat' = seat + 1
    /\ UNCHANGED <<deckVars, lastCall, ncalls, tourVars, equity, small_blind, big_blind, ante,
                   community_cards, pc, round_start, winners, pot_amount,
                   stacks_before>>

\* betting_round: one iteration, whatever the evaluator and random.random() return
BettingVisit ==
    \E score \in OracleScores \cup {0}, rand_val \in RandChoices \cup {0} :
        BettingVisitWith(score, rand_val)

\* deal_community_cards(3 | 1 | 1), then the next betting_round is entered
DealCommunityCards ==
    /\ pc \in {"preflop", "flop", "turn"}
    /\ seat > Len(players)
    /\ LET num_cards == CommunityCount(pc)
           after_burn == PopRest(deck)
       IN  /\ ~DealFails(after_burn, num_cards)
           /\ burned' = burned \o PopCard(deck)
           /\ community_cards' = community_cards \o DealtCards(after_burn, num_cards)
           /\ dealt' = dealt \o DealtCards(after_burn, num_cards)
           /\ deck' = DealRest(after_burn, num_cards)
    /\ pc' = NextStreet(pc)
    /\ seat' = 1
    /\ round_start' = Len(hand_history)
    /\ UNCHANGED <<lastCall, ncalls, players, tourVars, equity, small_blind, big_blind, ante, pot,
                   current_bet, hand_history, scores, winners, pot_amount,
                   stacks_before>>

\* winners = self.showdown(); pot_amount = self.pot
Showdown ==
    /\ pc = "river"
    /\ seat > Len(players)
    /\ \E sc \in [Seats -> OracleScores \cup {0}] :
        /\ \A i \in Seats :
              IF scores[i] # 0 \/ ~players[i].is_active
              THEN sc[i] = scores[i]
              ELSE sc[i] # 0
        /\ scores' = sc
        /\ winners' = ShowdownFrom(1, 0, <<>>, sc)
    /\ pot_amount' = pot
    /\ pc' = "distribute"
    /\ UNCHANGED <<deckVars, lastCall, ncalls, players, tourVars, equity, small_blind, big_blind, ante,
                   community_cards, pot, current_bet, hand_history, seat, round_start,
                   stacks_before>>

\* self.distribute_pot(winners)
DistributePot ==
    /\ pc = "distribute"
    /\ IF winners = <<>>
       THEN UNCHANGED <<players, pot>>
       ELSE /\ players' = [i \in Seats |->
                             IF i \in Range(winners)
                             THEN [players[i] EXCEPT !.stack = @ + Share(pot, winners)]
                             ELSE players[i]]
            /\ pot' = 0
    /\ pc' = "learn"
    /\ UNCHANGED <<deckVars, lastCall, ncalls, tourVars, equity, small_blind, big_blind, ante,
                   community_cards, current_bet, hand_history, seat, round_start,
                   scores, winners, pot_amount, stacks_before>>

\* the AI learning loop of play_hand; the result is returned
LearnAndReturn ==
    /\ pc = "learn"
    /\ players' = [i \in Seats |->
                      IF players[i].kind = "ai"
                      THEN LearnFromHand(players[i], i \in Range(winners),
                               IF players[i].last_action # None
                               THEN players[i].last_action.action ELSE "check")
                      ELSE players[i]]
    /\ pc' = "done"
    /\ UNCHANGED <<deckVars, lastCall, ncalls, tourVars, equity, small_blind, big_blind, ante,
                   community_cards, pot, current_bet, hand_history, seat, round_start,
                   scores, winners, pot_amount, stacks_before>>

Next ==
    \/ ResetHand
    \/ DealHoleCards
    \/ PostBlindsAndAntes
    \/ BettingVisit
    \/ DealCommunityCards
    \/ Showdown
    \/ DistributePot
    \/ LearnAndReturn

Spec == Init /\ [][Next]_vars

----------------------------------------------------------------------------
(* SpecReset: play_hand, then reset_hand called on the game it leaves behind *)

\* game.reset_hand() after play_hand has returned
ResetHandCall ==
    /\ pc = "done"
    /\ deck' = FreshDeck
    /\ dealt' = <<>>
    /\ burned' = <<>>
    /\ community_cards' = <<>>
    /\ pot' = 0
    /\ hand_history' = <<>>
    /\ current_bet' = 0
    /\ players' = [i \in Seats |-> ClearHand(players[i])]
    /\ pc' = "reset"
    /\ UNCHANGED <<tourVars, equity, small_blind, big_blind, ante, lastCall, ncalls, seat, round_start,
                   scores, winners, pot_amount, stacks_before>>

NextReset ==
    \/ ResetHand
    \/ DealHoleCards
    \/ PostBlindsAndAntes
    \/ BettingVisit
    \/ DealCommunityCards
    \/ Showdown
    \/ DistributePot
    \/ LearnAndReturn
    \/ ResetHandCall

SpecReset == Init /\ [][NextReset]_vars

----------------------------------------------------------------------------
(* SpecLearn: learn_from_hand called on AI players, then one play_hand call *)

InitLearn ==
    /\ DeckConstructed
    /\ GameConstructed
    /\ NoTournament
    /\ equity = NoQuery
    /\ \E kind2 \in KindChoices, agg \in [1..2 -> AggressionChoices] :
          players = [i \in 1..2 |->
                       [NewPlayer(i, IF i = 1 THEN "ai" ELSE kind2, DefaultStack)
                          EXCEPT !.aggression = IF i = 1 \/ kind2 = "ai" THEN agg[i] ELSE @]]
    /\ small_blind = DefaultSmallBlind
    /\ big_blind = DefaultBigBlind
    /\ ante = 0
    /\ lastCall = [op |-> "PokerGame"]
    /\ ncalls = 0

\* player.learn_from_hand(won, last_action), called before play_hand
LearnCall ==
    /\ pc = "idle"
    /\ ncalls < MaxLearnCalls
    /\ \E i \in Seats, won \in BOOLEAN, last_action \in LastActionChoices :
          /\ players[i].kind = "ai"
          /\ players' = [players EXCEPT ![i] = LearnFromHand(@, won, last_action)]
    /\ ncalls' = ncalls + 1
    /\ UNCHANGED <<deckVars, lastCall, tourVars, equity, small_blind, big_blind, ante, community_cards,
                   pot, current_bet, hand_history, pc, seat, round_start, scores,
                   winners, pot_amount, stacks_before>>

NextLearn ==
    \/ LearnCall
    \/ ResetHand
    \/ DealHoleCards
    \/ PostBlindsAndAntes
    \/ BettingVisit
    \/ DealCommunityCards
    \/ Showdown
    \/ DistributePot
    \/ LearnAndReturn

SpecLearn == InitLearn /\ [][NextLearn]_vars

----------------------------------------------------------------------------
(* SpecTournament: Tournament(players, starting_stack, blind_schedule).run() *)
(* `players` is self.active_players, the list each PokerGame is built on.   *)

\* Tournament.__init__, and run up to its while loop
InitTournament ==
    /\ DeckConstructed
    /\ community_cards = <<>>
    /\ pot = 0
    /\ current_bet = 0
    /\ hand_history = <<>>
    /\ pc = "nogame"
    /\ seat = 0
    /\ round_start = 0
    /\ scores = <<>>
    /\ winners = <<>>
    /\ pot_amount = 0
    /\ stacks_before = <<>>
    /\ small_blind = DefaultSmallBlind
    /\ big_blind = DefaultBigBlind
    /\ ante = 0
    /\ lastCall = [op |-> "Tournament"]
    /\ ncalls = 0
    /\ \E entry \in TournamentEntries :
          LET n == entry[1]
              starting_stack == entry[2]
          IN  players = [i \in 1..n |-> NewPlayer(i, "human", starting_stack)]
    /\ blind_schedule \in BlindSchedules
    /\ blind_level = 0
    /\ hands_played = 0
    /\ busted = <<>>
    /\ run_pc = "loop"
    /\ winner = 0
    /\ equity = NoQuery

\* the while test holds: blinds of the level, busted players removed,
\* game = PokerGame(self.active_players, small_blind=sb, big_blind=bb)
RunEnterHand ==
    /\ run_pc = "loop"
    /\ Len(Solvent(players)) > 1
    /\ hands_played < MaxHands
    /\ small_blind' = LevelInUse(blind_schedule, blind_level)[1]
    /\ big_blind' = LevelInUse(blind_schedule, blind_level)[2]
    /\ ante' = 0
    /\ players' = Solvent(players)
    /\ busted' = busted \o Dropped(players)
    /\ deck' = FreshDeck
    /\ dealt' = <<>>
    /\ burned' = <<>>
    /\ community_cards' = <<>>
    /\ pot' = 0
    /\ current_bet' = 0
    /\ hand_history' = <<>>
    /\ pc' = "idle"
    /\ seat' = 0
    /\ round_start' = 0
    /\ scores' = <<>>
    /\ winners' = <<>>
    /\ pot_amount' = 0
    /\ stacks_before' = <<>>
    /\ run_pc' = "hand"
    /\ UNCHANGED <<lastCall, ncalls, blind_schedule, blind_level, hands_played, winner,
                   equity>>

\* game.play_hand() has returned: hands_played += 1, blinds advance every 20 hands
RunAfterHand ==
    /\ run_pc = "hand"
    /\ pc = "done"
    /\ hands_played' = hands_played + 1
    /\ blind_level' = NextBlindLevel(blind_level, hands_played + 1)
    /\ run_pc' = "loop"
    /\ UNCHANGED <<deckVars, lastCall, ncalls, players, small_blind, big_blind, ante,
                   community_cards, pot, current_bet, hand_history, pc, seat,
                   round_start, scores, winners, pot_amount, stacks_before,
                   blind_schedule, busted, winner, equity>>

\* the while test fails: the first player with chips is returned
RunReturn ==
    /\ run_pc = "loop"
    /\ ~(Len(Solvent(players)) > 1)
    /\ winner' = Winner(players)
    /\ run_pc' = "returned"
    /\ UNCHANGED <<deckVars, lastCall, ncalls, players, small_blind, big_blind, ante,
                   community_cards, pot, current_bet, hand_history, pc, seat,
                   round_start, scores, winners, pot_amount, stacks_before,
                   blind_schedule, blind_level, hands_played, busted, equity>>

NextTournament ==
    \/ RunEnterHand
    \/ ResetHand
    \/ DealHoleCards
    \/ PostBlindsAndAntes
    \/ BettingVisit
    \/ DealCommunityCards
    \/ Showdown
    \/ DistributePot
    \/ LearnAndReturn
    \/ RunAfterHand
    \/ RunReturn

SpecTournament == InitTournament /\ [][NextTournament]_vars

----------------------------------------------------------------------------
(* SpecTournamentLive: Tournament.run without a bound on the number of hands. *)
(* The loop reads hands_played only through `hands_played % hands_per_level`  *)
(* and blind_level only through `min(blind_level, len(blind_schedule)-1)`,    *)
(* so the two counters are kept modulo hands_per_level and up to the last     *)
(* index of the schedule: every run of the loop is a behaviour of this        *)
(* specification and the other way round, and the state space is finite.      *)

\* game.play_hand() has returned: hands_played += 1, blinds advance every 20 hands
RunAfterHandCyclic ==
    /\ run_pc = "hand"
    /\ pc = "done"
    /\ hands_played' = (hands_played + 1) % HandsPerLevel
    /\ blind_level' = Min(NextBlindLevel(blind_level, hands_played + 1),
                          Len(blind_schedule) - 1)
    /\ run_pc' = "loop"
    /\ UNCHANGED <<deckVars, lastCall, ncalls, players, small_blind, big_blind, ante,
                   community_cards, pot, current_bet, hand_history, pc, seat,
                   round_start, scores, winners, pot_amount, stacks_before,
                   blind_schedule, busted, winner, equity>>

NextTournamentLive ==
    \/ RunEnterHand
    \/ ResetHand
    \/ DealHoleCards
    \/ PostBlindsAndAntes
    \/ BettingVisit
    \/ DealCommunityCards
    \/ Showdown
    \/ DistributePot
    \/ LearnAndReturn
    \/ RunAfterHandCyclic
    \/ RunReturn

\* run is sequential code: as long as a next statement exists it is executed.
SpecTournamentLive ==
    InitTournament /\ [][NextTournamentLive]_vars /\ WF_vars(NextTournamentLive)

----------------------------------------------------------------------------
(* SpecEquity: calculate_equity(hand1, hand2, iterations) *)

InitEquity ==
    /\ deck = <<>>
    /\ dealt = <<>>
    /\ burned = <<>>
    /\ GameConstructed
    /\ NoTournament
    /\ small_blind = DefaultSmallBlind
    /\ big_blind = DefaultBigBlind
    /\ ante = 0
    /\ players = <<>>
    /\ lastCall = [op |-> "calculate_equity"]
    /\ ncalls = 0
    /\ \E query \in EquityQueries :
          equity = [pc |-> "loop", hand1 |-> query[1], hand2 |-> query[2],
                    iterations |-> query[3], done |-> 0, wins |-> 0, ties |-> 0,
                    h1 |-> <<>>, h2 |-> <<>>, board |-> <<>>,
                    score1 |-> 0, score2 |-> 0, error |-> "", result |-> <<0, 1>>]

\* evaluator.evaluate(board, hand): a score; with the same card twice among
\* the seven, what treys does is not defined: any score, or a KeyError (0)
Evaluations(board, hand) ==
    IF Cardinality(Range(board) \cup Range(hand)) = 7
    THEN OracleScores
    ELSE OracleScores \cup {0}

\* one iteration of `for _ in range(iterations)`
EquityIteration ==
    /\ equity.pc = "loop"
    /\ equity.done < equity.iterations
    /\ LET parsed1 == ParseHand(equity.hand1)
           parsed2 == ParseHand(equity.hand2)
       IN  IF parsed1.raised # ""
           THEN equity' = [equity EXCEPT !.pc = "raised", !.error = parsed1.raised]
           ELSE IF parsed2.raised # ""
           THEN equity' = [equity EXCEPT !.pc = "raised", !.error = parsed2.raised]
           ELSE \E h1 \in parsed1.combos, h2 \in parsed2.combos, how \in ShuffleChoices :
                  LET cards == RemoveHoleCards(
                                   RemoveHoleCards(Permute(FreshDeck, how), h1), h2)
                      board == Board(cards)
                  IN  \E score1 \in Evaluations(board, h1),
                         score2 \in Evaluations(board, h2) :
                        IF score1 = 0 \/ score2 = 0
                        THEN equity' = [equity EXCEPT !.pc = "raised",
                                                      !.error = "KeyError",
                                                      !.h1 = h1, !.h2 = h2,
                                                      !.board = board]
                        ELSE LET tally == Tally([wins |-> equity.wins,
                                                  ties |-> equity.ties],
                                                 score1, score2)
                             IN  equity' = [equity EXCEPT
                                              !.h1 = h1, !.h2 = h2, !.board = board,
                                              !.score1 = score1, !.score2 = score2,
                                              !.wins = tally.wins, !.ties = tally.ties,
                                              !.done = @ + 1]
    /\ UNCHANGED <<deckVars, lastCall, ncalls, players, tourVars, small_blind, big_blind,
                   ante, community_cards, pot, current_bet, hand_history, pc, seat,
                   round_start, scores, winners, pot_amount, stacks_before>>

\* `return (wins + 0.5 * ties) / iterations`
EquityReturn ==
    /\ equity.pc = "loop"
    /\ equity.done = equity.iterations
    /\ equity' = IF equity.iterations = 0
                 THEN [equity EXCEPT !.pc = "raised", !.error = "ZeroDivisionError"]
                 ELSE [equity EXCEPT !.pc = "returned",
                                     !.result = EquityResult(equity.wins, equity.ties,
                                                             equity.iterations)]
    /\ UNCHANGED <<deckVars, lastCall, ncalls, players, tourVars, small_blind, big_blind,
                   ante, community_cards, pot, current_bet, hand_history, pc, seat,
                   round_start, scores, winners, pot_amount, stacks_before>>

NextEquity ==
    \/ EquityIteration
    \/ EquityReturn

SpecEquity == InitEquity /\ [][NextEquity]_vars

----------------------------------------------------------------------------
(* Properties of the Deck API, under SpecDeck *)

DeckSize == 52

\* The cards dealt, burned and remaining are pairwise distinct and number 52.
DeckPartition ==
    /\ NoDuplicates(dealt \o burned \o deck)
    /\ Len(dealt) + Len(burned) + Len(deck) = DeckSize

\* A successful deal(n) lowers the remaining count by exactly n.
DealLowersByN ==
    (lastCall.op = "deal" /\ ~lastCall.raised)
        => /\ Len(deck) = Len(lastCall.cards) - lastCall.arg
           /\ Len(lastCall.returned) = lastCall.arg

\* deal_one and burn_card on a non-empty deck lower the remaining count by 1.
PopLowersByOne ==
    (lastCall.op \in {"deal_one", "burn_card"} /\ lastCall.cards # <<>>)
        => Len(deck) = Len(lastCall.cards) - 1

(***************************************************************************)
(* C2. Deck partition: after any sequence of shuffle, deal(n), deal_one    *)
(* and burn_card from a reset deck, the cards dealt, burned and remaining  *)
(* are pairwise distinct and number 52; each successful deal(n) lowers the *)
(* remaining count by exactly n, and deal_one / burn_card on a non-empty   *)
(* deck lower it by exactly 1.                                             *)
(***************************************************************************)
C2_DeckPartitionAndCounts == DeckPartition /\ DealLowersByN /\ PopLowersByOne

(***************************************************************************)
(* C3. deal(n) with n greater than the number of remaining cards fails     *)
(* with the deck-exhausted error, returns no cards and leaves the          *)
(* remaining sequence unchanged.                                           *)
(***************************************************************************)
C3_DealBeyondRemainingFails ==
    (lastCall.op = "deal" /\ lastCall.arg > Len(lastCall.cards))
        => /\ lastCall.raised
           /\ lastCall.returned = <<>>
           /\ deck = lastCall.cards

\* A deal of 3 is refused on a deck that holds only the 2 cards a deal of 50 left.
C3_Witness ==
    /\ lastCall.op = "deal"
    /\ lastCall.arg = 3
    /\ Len(lastCall.cards) = 2
    /\ lastCall.raised
    /\ Len(dealt) = 50

----------------------------------------------------------------------------
(* Properties of the Player action methods, under SpecPlayer *)

(***************************************************************************)
(* C9. All-in reclassification: each of call(a), bet(a) and raise_to(a)    *)
(* with a >= stack returns an all-in action whose amount is the full       *)
(* remaining stack, leaves stack 0 and is_all_in true, and raises          *)
(* total_bet by the former stack; bet(a) with a < stack lowers the stack   *)
(* by exactly a.                                                           *)
(***************************************************************************)
C9_AllInReclassification ==
    lastCall.op \in {"call", "bet", "raise_to"}
        => LET was == lastCall.before
               a == lastCall.arg
               p == players[1]
           IN  /\ a >= was.stack
                    => /\ lastCall.returned.action = "all_in"
                       /\ lastCall.returned.amount = was.stack
                       /\ p.stack = 0
                       /\ p.is_all_in
                       /\ p.total_bet = was.total_bet + was.stack
               /\ (lastCall.op = "bet" /\ a < was.stack) => p.stack = was.stack - a

(***************************************************************************)
(* C10. raise_to(target) pays the increment: whenever total_bet <= target  *)
(* and target - total_bet < stack, it lowers the stack by exactly          *)
(* target - total_bet, makes total_bet equal to target and does not put    *)
(* the player all-in; the amount paid is never negative.                   *)
(***************************************************************************)
C10_RaiseToPaysIncrement ==
    lastCall.op = "raise_to"
        => LET was == lastCall.before
               target == lastCall.arg
               p == players[1]
           IN  /\ (was.total_bet <= target /\ target - was.total_bet < was.stack)
                    => /\ p.stack = was.stack - (target - was.total_bet)
                       /\ p.total_bet = target
                       /\ ~p.is_all_in
               /\ was.stack - p.stack >= 0

----------------------------------------------------------------------------
(* Properties of play_hand, under Spec *)

Active == {i \in Seats : players[i].is_active}
AfterShowdown == pc \in {"distribute", "learn", "done"}

\* The entries the running betting_round has appended so far.
RoundEntries == SubSeq(hand_history, round_start + 1, Len(hand_history))

\* The number of community cards the claims expect on the board in street st.
BoardSize(st) == CASE st = "preflop" -> 0 [] st = "flop" -> 3 [] st = "turn" -> 4 [] OTHER -> 5

(***************************************************************************)
(* C1. Chip conservation: when play_hand has completed, the sum of the     *)
(* stacks before the hand equals the sum of the stacks after it plus the   *)
(* pot-split remainder, pot mod number of winners.                         *)
(***************************************************************************)
C1_ChipConservation ==
    pc = "done"
        => /\ winners # <<>>
           /\ SumSeq(stacks_before) =
                  SumSeq(Stacks) + (IF winners # <<>> THEN pot_amount % Len(winners) ELSE 0)

\* A hand three players tie, with a pot that three shares do not exhaust.
C1_Witness ==
    /\ pc = "done"
    /\ Len(winners) = 3
    /\ pot_amount % 3 # 0
    /\ SumSeq(Stacks) < SumSeq(stacks_before)

(***************************************************************************)
(* C4. At showdown the winners are exactly the active players whose score  *)
(* is the minimum among the active players, listed in seating order; a     *)
(* folded player is never a winner.                                        *)
(***************************************************************************)
C4_ShowdownWinners ==
    AfterShowdown
        => /\ Range(winners) =
                  {i \in Active : \A j \in Active : scores[i] <= scores[j]}
           /\ \A k \in 1..(Len(winners) - 1) : winners[k] < winners[k + 1]
           /\ \A i \in Seats : ~players[i].is_active => i \notin Range(winners)

\* Two players tie for the best score, a third is active and loses.
C4_Witness ==
    /\ AfterShowdown
    /\ Len(winners) = 2
    /\ Cardinality(Active) = 3

(***************************************************************************)
(* C5. distribute_pot with a non-empty winner list adds pot div |winners|  *)
(* to each winner's stack, leaves every other stack unchanged, credits the *)
(* remainder to no one and leaves pot = 0; a single winner gains exactly   *)
(* the pot.                                                                *)
(***************************************************************************)
C5_DistributePot ==
    [][(pc = "distribute" /\ winners # <<>>)
        => /\ \A i \in Seats :
                 players'[i].stack = players[i].stack +
                     (IF i \in Range(winners) THEN pot \div Len(winners) ELSE 0)
           /\ pot' = 0
           /\ SumSeq([i \in Seats |-> players'[i].stack]) =
                  SumSeq(Stacks) + pot - (pot % Len(winners))
           /\ Len(winners) = 1 =>
                  players'[winners[1]].stack = players[winners[1]].stack + pot
      ]_vars

\* An odd pot was split between two winners while a third player got nothing.
C5_Witness ==
    /\ pc = "learn"
    /\ Len(winners) = 2
    /\ Len(players) = 3
    /\ pot_amount % 2 = 1
    /\ pot = 0

C7_StreetOrder ==
    /\ [](/\ InBettingRound => Len(community_cards) = BoardSize(pc)
          /\ AfterShowdown => Len(community_cards) = BoardSize("river")
          /\ \A k \in 1..(Len(hand_history) - 1) :
                StreetNo(hand_history[k].street) <= StreetNo(hand_history[k + 1].street)
          /\ InBettingRound =>
                \A k \in DOMAIN hand_history :
                    StreetNo(hand_history[k].street) <= StreetNo(pc))
    /\ [][pc' # pc
            => <<pc, pc'>> \in { <<"idle", "deal">>, <<"deal", "blinds">>,
                                 <<"blinds", "preflop">>, <<"preflop", "flop">>,
                                 <<"flop", "turn">>, <<"turn", "river">>,
                                 <<"river", "distribute">>, <<"distribute", "learn">>,
                                 <<"learn", "done">> }
         ]_vars

\* The hand is over and its history holds an action of every street.
C7_Witness ==
    /\ pc = "done"
    /\ Len(community_cards) = 5
    /\ \A st \in Range(Streets) : \E k \in DOMAIN hand_history : hand_history[k].street = st

(***************************************************************************)
(* C8. Fold is irreversible within a hand: a player who has folded stays   *)
(* inactive, no later step of the hand changes the player's stack or       *)
(* total_bet or records an action for the player, and the player is not    *)
(* among the showdown winners.                                             *)
(***************************************************************************)
C8_FoldIrreversible ==
    /\ [][\A i \in Seats :
            (pc # "idle" /\ ~players[i].is_active)
                => /\ ~players'[i].is_active
                   /\ players'[i].stack = players[i].stack
                   /\ players'[i].total_bet = players[i].total_bet
                   /\ hand_history' # hand_history
                        => hand_history'[Len(hand_history')].player # i
         ]_vars
    /\ [](\A k \in DOMAIN winners : players[winners[k]].is_active)

\* A player folded before the flop and the hand went on to its end.
C8_Witness ==
    /\ pc = "done"
    /\ \E i \in Seats :
          /\ ~players[i].is_active
          /\ \E k \in DOMAIN hand_history :
                /\ hand_history[k].player = i
                /\ hand_history[k].action = "fold"
                /\ hand_history[k].street = "preflop"
    /\ pot_amount > 0

\* The last entry of hand_history made for seat i; 0 when there is none.
LastEntryOf(i) ==
    LET mine == {k \in DOMAIN hand_history : hand_history[k].player = i}
    IN  IF mine = {} THEN 0 ELSE CHOOSE k \in mine : \A j \in mine : j <= k

\* Seat i has paid its whole stack into the pot during this hand.
PaidWholeStack(i) == players[i].stack = 0 /\ players[i].total_bet > 0

(***************************************************************************)
(* C11. Non-negative chips: at every point of play_hand, for non-negative  *)
(* initial stacks, strictly positive blinds and any ante >= 0, every       *)
(* player's stack and total_bet and the pot are >= 0.                      *)
(***************************************************************************)
C11_NonNegativeChips ==
    /\ pot >= 0
    /\ \A i \in Seats : players[i].stack >= 0 /\ players[i].total_bet >= 0

(***************************************************************************)
(* C12. All-in semantics in a hand: a player whose stack has reached 0 by  *)
(* paying chips into the pot takes no further betting action in that hand  *)
(* (its visit appends nothing to the history and moves no chips), is not   *)
(* folded afterwards, and is still active at the showdown.                 *)
(***************************************************************************)
C12_AllInSemantics ==
    [][\A i \in Seats :
          (pc \notin {"idle", "deal", "done"} /\ PaidWholeStack(i) /\ players[i].is_active
             /\ pc' \notin {"learn", "done"})
              => /\ players'[i].is_active
                 /\ players'[i].stack = 0
                 /\ players'[i].total_bet = players[i].total_bet
                 /\ (InBettingRound /\ seat = i) => hand_history' = hand_history
      ]_vars

(***************************************************************************)
(* C13. Action ledger: every action taken in a betting_round of play_hand  *)
(* appends one PlayerAction to the hand history and is recorded as the     *)
(* player's last_action, so once a betting round is over each player who   *)
(* acted has last_action equal to their most recent hand_history entry.    *)
(***************************************************************************)
C13_ActionLedger ==
    /\ [][(InBettingRound /\ seat <= Len(players) /\ ~SkipsTurn(players[seat]))
             => /\ Len(hand_history') = Len(hand_history) + 1
                /\ hand_history'[Len(hand_history')].player = seat
         ]_vars
    /\ []((InBettingRound /\ seat > Len(players))
             => \A i \in Seats :
                   LastEntryOf(i) # 0
                       => players[i].last_action = hand_history[LastEntryOf(i)])

(***************************************************************************)
(* C14. AI learning after a hand: the learning step shifts every AI        *)
(* player's aggression by the kind of that player's last action in the     *)
(* hand: +0.05 on a win and -0.05 on a loss after bet / raise / all-in,    *)
(* -0.02 on a win and +0.02 on a loss after fold / check / call, clamped   *)
(* to [0, 1].                                                              *)
(***************************************************************************)
C14_LearningByLastAction ==
    [][pc = "learn"
         => \A i \in Seats :
               (players[i].kind = "ai" /\ LastEntryOf(i) # 0)
                   => players'[i].aggression =
                          LearnFromHand(players[i], i \in Range(winners),
                                        hand_history[LastEntryOf(i)].action).aggression
      ]_vars

----------------------------------------------------------------------------
(* Properties of reset_hand, under SpecReset *)

\* The step is a reset_hand: the one play_hand starts with, or a later call.
IsReset == (pc = "idle" /\ pc' = "deal") \/ (pc = "done" /\ pc' = "reset")

(***************************************************************************)
(* C16. reset_hand resets every hand-scoped field and nothing else:        *)
(* afterwards every player has no hole cards, total_bet 0, is_active true  *)
(* and is_all_in false, the pot and current_bet are 0, there are no        *)
(* community cards, the hand history is empty and the deck is a full       *)
(* 52-card deck, while every stack, every AI aggression and the blinds     *)
(* and ante are unchanged.                                                 *)
(***************************************************************************)
C16_ResetHand ==
    [][IsReset
         => /\ \A i \in Seats :
                  /\ players'[i].hand = <<>>
                  /\ players'[i].total_bet = 0
                  /\ players'[i].is_active
                  /\ ~players'[i].is_all_in
                  /\ players'[i].stack = players[i].stack
                  /\ players'[i].aggression = players[i].aggression
                  /\ players'[i].name = players[i].name
                  /\ players'[i].kind = players[i].kind
            /\ DOMAIN players' = DOMAIN players
            /\ pot' = 0
            /\ current_bet' = 0
            /\ community_cards' = <<>>
            /\ hand_history' = <<>>
            /\ Len(deck') = DeckSize
            /\ Range(deck') = AllCards
            /\ UNCHANGED <<small_blind, big_blind, ante>>
      ]_vars

\* reset_hand was called after a hand that moved chips, shifted an AI
\* player's aggression and left a player with an empty stack.
C16_Witness ==
    /\ pc = "reset"
    /\ Stacks # stacks_before
    /\ hand_history = <<>> /\ community_cards = <<>> /\ Len(deck) = DeckSize
    /\ \E i \in Seats : players[i].kind = "ai" /\ players[i].aggression # 50
    /\ \E i \in Seats : players[i].stack = 0 /\ players[i].is_active
    /\ \A i \in Seats : players[i].total_bet = 0

----------------------------------------------------------------------------
(* Properties of learn_from_hand, under SpecLearn *)

Aggressions == [i \in Seats |-> players[i].aggression]

(***************************************************************************)
(* C15. Aggression clamp: starting from aggression in [0, 1], after any    *)
(* sequence of learn_from_hand calls (any win flag, any last-action        *)
(* string) and after a hand, every aggression is in [0, 1]; aggression     *)
(* changes only in a learn_from_hand call, which play_hand makes exactly   *)
(* once per AI player in its post-hand learning step and never during the  *)
(* reset, dealing, blinds, betting, showdown or pot distribution.          *)
(***************************************************************************)
C15_AggressionClamp ==
    /\ [](\A i \in Seats : players[i].aggression \in 0..100)
    /\ [][/\ Aggressions' # Aggressions => (pc = "learn" \/ ncalls' = ncalls + 1)
          /\ pc = "learn"
               => \A i \in Seats :
                     IF players[i].kind = "ai"
                     THEN \E won \in BOOLEAN, last_action \in LastActionChoices :
                             players'[i] = LearnFromHand(players[i], won, last_action)
                     ELSE players'[i] = players[i]
         ]_vars

\* A hand was played after two learn_from_hand calls and its loser ended at the
\* upper clamp, its winner at the lower one.
C15_Witness ==
    /\ pc = "done"
    /\ ncalls = MaxLearnCalls
    /\ \E i, j \in Seats :
          /\ players[i].kind = "ai" /\ players[j].kind = "ai"
          /\ i \notin Range(winners) /\ players[i].aggression = 100
          /\ j \in Range(winners) /\ players[j].aggression = 0

----------------------------------------------------------------------------
(* Properties of Tournament.run, under SpecTournament *)

\* Every Player object of the tournament: those still listed and those dropped.
Entrants == players \o busted

SolventNames == {Entrants[k].name : k \in {j \in DOMAIN Entrants : Entrants[j].stack > 0}}

\* A hand of the tournament is being played.
InHand == run_pc = "hand"

(***************************************************************************)
(* C17. Tournament blind schedule: the k-th hand of a run is played with   *)
(* blind_schedule[min((k-1) div 20, len-1)]; the level advances by one     *)
(* index per 20 hands played and never decreases, the schedule is never    *)
(* indexed past its last entry, and hands_played grows by exactly 1 per    *)
(* hand played.                                                            *)
(***************************************************************************)
C17_BlindSchedule ==
    /\ [](InHand =>
            LET k == hands_played + 1
                index == Min((k - 1) \div 20, Len(blind_schedule) - 1)
            IN  /\ index + 1 \in DOMAIN blind_schedule
                /\ <<small_blind, big_blind>> = blind_schedule[index + 1])
    /\ [](blind_level = hands_played \div 20)
    /\ [][/\ blind_level' >= blind_level
          /\ hands_played' = IF InHand /\ pc = "done"
                             THEN hands_played + 1 ELSE hands_played
          /\ (InHand /\ ~InHand') <=> (pc = "done" /\ hands_played' = hands_played + 1)
         ]_vars

\* The 41st hand is being played: the level has advanced twice, a schedule of
\* two levels is held at its last entry.
C17_Witness ==
    /\ InHand
    /\ hands_played = 40
    /\ blind_level = 2
    /\ Len(blind_schedule) = 2
    /\ <<small_blind, big_blind>> = blind_schedule[2]
    /\ pc = "flop"

(***************************************************************************)
(* C18. Tournament elimination is permanent: a player whose stack is 0     *)
(* when a hand is about to start is not seated in that hand or in any      *)
(* later hand, is never re-added, and its stack stays 0 to the end of the  *)
(* run.                                                                    *)
(***************************************************************************)
C18_EliminationPermanent ==
    /\ []((InHand /\ pc = "idle") => \A i \in Seats : players[i].stack > 0)
    /\ [](\A k \in DOMAIN busted :
              /\ busted[k].stack = 0
              /\ \A i \in Seats : players[i].name # busted[k].name)
    /\ [][/\ Len(busted') >= Len(busted)
          /\ \A k \in DOMAIN busted : busted'[k].name = busted[k].name
          /\ \A i \in Seats :
                (run_pc = "loop" /\ run_pc' = "hand" /\ players[i].stack = 0)
                    => /\ \E k \in DOMAIN busted' : busted'[k].name = players[i].name
                       /\ \A j \in DOMAIN players' : players'[j].name # players[i].name
         ]_vars

\* Of three entrants one was eliminated, and the two others are in a later hand.
C18_Witness ==
    /\ InHand
    /\ pc = "river"
    /\ Len(busted) = 1
    /\ Len(players) = 2
    /\ hands_played >= 2

(***************************************************************************)
(* C19. Tournament result: whenever run returns, exactly one player has a  *)
(* positive stack, every other player has stack 0, and the returned winner *)
(* is that player; the run never ends with no solvent player.              *)
(***************************************************************************)
C19_TournamentResult ==
    run_pc = "returned"
        => /\ Cardinality(SolventNames) = 1
           /\ \A k \in DOMAIN Entrants : Entrants[k].stack >= 0
           /\ winner \in SolventNames

\* run returned the second-seated of three entrants after more than one hand.
C19_Witness ==
    /\ run_pc = "returned"
    /\ Len(Entrants) = 3
    /\ hands_played > 1
    /\ winner = 2
    /\ players[1].stack = 0

(***************************************************************************)
(* C20. Tournament termination: with strictly positive blinds and at least *)
(* two players with positive stacks, run terminates after finitely many    *)
(* hands for every sequence of shuffles and showdown outcomes.             *)
(***************************************************************************)
C20_TournamentTerminates == <>(run_pc = "returned")

----------------------------------------------------------------------------
(* Properties of the bets of play_hand, under Spec *)

\* The blinds and antes have been posted.
BlindsPosted == InBettingRound \/ AfterShowdown

\* The largest total_bet at the table.
HighWater == CHOOSE t \in Range(TotalBets) : \A u \in Range(TotalBets) : u <= t

\* The step is the visit of a player who acts, and to_call is what it faces.
ActingVisit == InBettingRound /\ seat <= Len(players) /\ ~SkipsTurn(players[seat])
ToCall == current_bet - players[seat].total_bet

(***************************************************************************)
(* C24. current_bet is the high-water total_bet: at every point of a hand  *)
(* after the blinds are posted current_bet equals the maximum total_bet    *)
(* over all players, so every player visited in a betting round has        *)
(* to_call >= 0 and no CALL entry of the hand history has a negative       *)
(* amount.                                                                 *)
(***************************************************************************)
C24_CurrentBetHighWater ==
    BlindsPosted
        => /\ current_bet = HighWater
           /\ (InBettingRound /\ seat <= Len(players)) => ToCall >= 0
           /\ \A k \in DOMAIN hand_history :
                 hand_history[k].action = "call" => hand_history[k].amount >= 0

(***************************************************************************)
(* C25. A check happens only if there is no bet to call: every CHECK       *)
(* entry of the hand history is made by a player whose to_call is 0 at     *)
(* that moment, so every player still active at the showdown has total_bet *)
(* equal to current_bet unless their stack is 0.                           *)
(***************************************************************************)
C25_CheckOnlyWhenNothingToCall ==
    /\ [][(ActingVisit /\ hand_history'[Len(hand_history')].action = "check")
             => ToCall = 0
         ]_vars
    /\ [](pc = "distribute"
             => \A i \in Active :
                   players[i].total_bet = current_bet \/ players[i].stack = 0)

\* Between reset_hand and distribute_pot: the hand is dealt, the blinds are
\* posted, a street is bet, or the showdown is over and the pot not yet paid.
BeforeDistribute == pc \in {"deal", "blinds", "distribute"} \/ InBettingRound

\* The chips the players have put in: every total_bet, and one ante each.
PaidIn == SumSeq(TotalBets) + Len(players) * ante

(***************************************************************************)
(* C28, as first stated: the same equation at every point of a hand        *)
(* between reset_hand and distribute_pot, the dealing included.            *)
(***************************************************************************)
C28_PotAccountingFromReset ==
    /\ BeforeDistribute => pot = PaidIn
    /\ AfterShowdown => pot_amount = PaidIn

(***************************************************************************)
(* C28. Pot accounting: at every point of a hand from the posting of the   *)
(* blinds and antes to distribute_pot, pot equals the sum over all players *)
(* of total_bet plus the number of players times the ante, and the pot     *)
(* value reported in the hand result equals this sum as it stands after    *)
(* the river betting round.  (Between reset_hand and the posting the pot   *)
(* is 0 while the antes are still owed: C28_PotAccountingFromReset.)       *)
(***************************************************************************)
C28_PotAccounting ==
    /\ (InBettingRound \/ pc = "distribute") => pot = PaidIn
    /\ AfterShowdown => pot_amount = PaidIn

\* An anted three-handed pot reached the showdown after a call and a bet.
C28_Witness ==
    /\ pc = "distribute"
    /\ ante > 0
    /\ Len(players) = 3
    /\ pot_amount > Len(players) * ante
    /\ \E k \in DOMAIN hand_history : hand_history[k].action = "call"
    /\ \E k \in DOMAIN hand_history :
          hand_history[k].action = "bet" /\ hand_history[k].street = "flop"

(***************************************************************************)
(* C29. Someone always wins: in every play_hand with at least one player   *)
(* at least one player is still active at the showdown, so the winner set  *)
(* is non-empty, the pot is distributed and the pot is 0 when the hand     *)
(* ends.                                                                   *)
(***************************************************************************)
C29_SomeoneAlwaysWins ==
    /\ Active # {}
    /\ AfterShowdown => winners # <<>> /\ Range(winners) \subseteq Active
    /\ pc \in {"learn", "done"} => pot = 0

\* Every player but one folded, and that one was paid a pot.
C29_Witness ==
    /\ pc = "done"
    /\ Len(players) = 3
    /\ Cardinality(Active) = 1
    /\ pot_amount > 0
    /\ pot = 0
    /\ \E i \in Active : players[i].stack > stacks_before[i]

\* What the blind posting leaves of seat i: the stack, total_bet and entries.
BlindStep == pc = "blinds"
StackAfterAnte(i) == IF ante > 0 THEN players[i].stack - ante ELSE players[i].stack
PostsBlind(i, blind, k) ==
    LET paid == Min(blind, StackAfterAnte(i))
    IN  /\ players'[i].stack = StackAfterAnte(i) - paid
        /\ players'[i].total_bet = players[i].total_bet + paid
        /\ hand_history'[k] = PlayerAction(i, "bet", paid, "preflop")
BlindsOfTwo ==
    /\ PostsBlind(1, small_blind, 1)
    /\ PostsBlind(2, big_blind, 2)
    /\ Len(hand_history') = 2
    /\ current_bet' = players'[2].total_bet
    /\ pot' = pot + Len(players) * (IF ante > 0 THEN ante ELSE 0)
                  + players'[1].total_bet + players'[2].total_bet

(***************************************************************************)
(* C30, as first stated: the blinds as below, and with fewer than two      *)
(* players no blind is posted and no stack changes.                        *)
(***************************************************************************)
C30_BlindPostingNoStackChange ==
    [][BlindStep
         => IF Len(players) >= 2
            THEN BlindsOfTwo
            ELSE /\ hand_history' = hand_history
                 /\ current_bet' = current_bet
                 /\ \A i \in Seats : players'[i].stack = players[i].stack
      ]_vars

(***************************************************************************)
(* C30. Blind posting: in every hand with at least two players, players[0] *)
(* pays min(small_blind, stack) and players[1] pays min(big_blind, stack)  *)
(* into the pot before any betting action, where stack is what the ante    *)
(* has left; each payment is added to that player's total_bet and recorded *)
(* as a preflop BET entry at the head of hand_history, and current_bet is  *)
(* set to the big-blind amount actually paid; with fewer than two players  *)
(* no blind is posted, and with or without blinds every other change of a  *)
(* stack in this step is the ante.                                         *)
(***************************************************************************)
C30_BlindPosting ==
    [][BlindStep
         => /\ IF Len(players) >= 2
               THEN BlindsOfTwo
               ELSE /\ hand_history' = hand_history
                    /\ current_bet' = current_bet
                    /\ TotalBets' = TotalBets
            /\ \A i \in Seats :
                  (i > 2 \/ Len(players) < 2) => players'[i].stack = StackAfterAnte(i)
      ]_vars

\* Short blinds were posted after an ante: seat 2 paid less than the big blind.
C30_Witness ==
    /\ pc = "preflop"
    /\ seat = 1
    /\ Len(players) = 3
    /\ ante > 0
    /\ players[1].total_bet = small_blind
    /\ players[2].total_bet < big_blind
    /\ current_bet = players[2].total_bet

\* The branch and the amount the stated policy gives an AI player p that faces
\* to_call with strength hs and draw r.
PolicyBranch(p, to_call, hs, r) ==
    CASE SignalAtLeast(hs, p.aggression, 100) /\ to_call = 0 /\ p.stack > 0
           /\ r < p.aggression                                          -> "bet"
      [] OTHER ->
           CASE SignalAtLeast(hs, p.aggression, 70) /\ p.stack >= to_call -> "call"
             [] OTHER ->
                  CASE ~SignalAtLeast(hs, p.aggression, 50) /\ to_call > 0
                         /\ r > p.aggression                            -> "fold"
                    [] OTHER                                            -> "check"
PolicyAmount(p, branch, to_call) ==
    CASE branch = "bet"  -> Min(IF pot > 0 THEN pot \div 2 ELSE big_blind, p.stack)
      [] branch = "call" -> to_call
      [] OTHER           -> 0

(***************************************************************************)
(* C26. AI decision policy: an AI player with signal = strength + 0.5 *    *)
(* aggression and draw r takes the first matching branch of: (1) signal >= *)
(* 1.0, to_call = 0, stack > 0 and r < aggression: BET of min(pot div 2 if *)
(* pot > 0 else big_blind, stack), after which current_bet = max(          *)
(* current_bet, total_bet); (2) signal >= 0.7 and stack >= to_call: CALL   *)
(* of exactly to_call; (3) signal < 0.5, to_call > 0 and r > aggression:   *)
(* FOLD; (4) otherwise CHECK paying nothing; stack, total_bet and pot      *)
(* change by exactly the amount of the action.                             *)
(***************************************************************************)
C26_AIDecisionPolicy ==
    [][\A score \in OracleScores \cup {0}, r \in RandChoices :
          (ActingVisit /\ players[seat].kind = "ai" /\ BettingVisitWith(score, r))
              => LET p == players[seat]
                     hs == IF pc = "preflop" THEN PreflopStrength(p.hand)
                                             ELSE PostflopStrength(score)
                     branch == PolicyBranch(p, ToCall, hs, r)
                     amount == PolicyAmount(p, branch, ToCall)
                     entry == hand_history'[Len(hand_history')]
                 IN  /\ Len(hand_history') = Len(hand_history) + 1
                     /\ entry = PlayerAction(seat, branch, amount, pc)
                     /\ players'[seat].stack = p.stack - amount
                     /\ players'[seat].total_bet = p.total_bet + amount
                     /\ pot' = pot + amount
                     /\ current_bet' = IF branch = "bet"
                                       THEN Max(current_bet, players'[seat].total_bet)
                                       ELSE current_bet
                     /\ players'[seat].is_active = (branch # "fold")
                     /\ \A i \in Seats \ {seat} : players'[i] = players[i]
      ]_vars

\* One hand in which AI players took all four branches, with a bet of half the pot.
C26_Witness ==
    /\ pc = "done"
    /\ \A i \in Seats : players[i].kind = "ai"
    /\ \A a \in {"call", "fold", "check"} :
          \E k \in DOMAIN hand_history : k > 2 /\ hand_history[k].action = a
    /\ \E k \in DOMAIN hand_history :
          /\ k > 2
          /\ hand_history[k].action = "bet"
          /\ hand_history[k].amount > big_blind

----------------------------------------------------------------------------
(* Properties of Card.from_string and str, under SpecCard *)

\* A string the claims call valid: two characters, a rank character and a
\* suit character, in either case.
ValidCardString(s) ==
    /\ Len(s) = 2
    /\ Upper(s[1]) \in {"2", "3", "4", "5", "6", "7", "8", "9", "T", "J", "Q", "K", "A"}
    /\ Lower(s[2]) \in {"h", "d", "c", "s"}

(***************************************************************************)
(* C23. Card round-trip: for every valid 2-character card string s,        *)
(* from_string(str(from_string(s))) = from_string(s), and for each of the  *)
(* 52 cards c, from_string(str(c)) = c; a string that is not 2 characters  *)
(* long or whose rank or suit character is invalid is rejected with an     *)
(* error and no Card is produced.                                          *)
(***************************************************************************)
C23_CardRoundTrip ==
    /\ (lastCall.op = "from_string" /\ lastCall.before.op = "str")
          => /\ ~lastCall.raised
             /\ lastCall.returned = lastCall.before.arg
             /\ lastCall.returned \in AllCards
    /\ lastCall.op = "from_string"
          => /\ ValidCardString(lastCall.arg) => ~lastCall.raised
             /\ ~ValidCardString(lastCall.arg)
                   => /\ lastCall.raised
                      /\ lastCall.error # ""
                      /\ lastCall.returned = NoCard

\* "as" was parsed, printed as "As" and parsed again.
C23_Witness ==
    /\ lastCall.op = "from_string"
    /\ lastCall.arg = <<"A", "s">>
    /\ lastCall.before.op = "str"
    /\ lastCall.before.before.op = "from_string"
    /\ lastCall.before.before.arg = <<"a", "s">>
    /\ lastCall.returned = Card(14, "s")

----------------------------------------------------------------------------
(* Properties of calculate_equity (SpecEquity) *)

\* The descriptor grammar: explicit cards, a pocket-pair class, or a suited
\* ("s") or offsuit ("o") class.
ValidDescriptor(s) ==
    \/ /\ Len(s) = 4
       /\ s[1] \in DOMAIN rank_map /\ s[2] \in EquitySuits
       /\ s[3] \in DOMAIN rank_map /\ s[4] \in EquitySuits
    \/ /\ Len(s) = 2
       /\ s[1] \in DOMAIN rank_map
       /\ s[1] = s[2]
    \/ /\ Len(s) = 3
       /\ s[1] \in DOMAIN rank_map /\ s[2] \in DOMAIN rank_map
       /\ s[3] \in {"s", "o"}

ValidQuery == ValidDescriptor(equity.hand1) /\ ValidDescriptor(equity.hand2)

\* An iteration that reached the tally.
ScoredIteration == equity.pc = "loop" /\ equity'.pc = "loop" /\ equity'.done = equity.done + 1

EquityTally ==
    /\ equity.pc \in {"loop", "returned"} =>
          /\ equity.wins \in 0..equity.done
          /\ equity.ties \in 0..equity.done
          /\ equity.wins + equity.ties <= equity.done
          /\ equity.done <= equity.iterations
    /\ equity.pc = "returned" =>
          /\ equity.iterations >= 1
          /\ equity.done = equity.iterations
          /\ equity.result = <<2 * equity.wins + equity.ties, 2 * equity.iterations>>
          /\ 0 <= equity.result[1]
          /\ equity.result[1] <= equity.result[2]

EquityTallyStep ==
    ScoredIteration =>
        /\ equity'.wins = equity.wins + (IF equity'.score1 < equity'.score2 THEN 1 ELSE 0)
        /\ equity'.ties = equity.ties + (IF equity'.score1 = equity'.score2 THEN 1 ELSE 0)
        /\ (equity'.wins - equity.wins) + (equity'.ties - equity.ties) \in {0, 1}

(* C21. Equity bounds: calculate_equity returns (wins + 0.5 * ties) / n,     *)
(* each iteration adds one to wins exactly when score1 < score2, one to ties *)
(* exactly when score1 = score2 and never to both, so wins + ties <= n and   *)
(* the result lies in [0, 1].                                                *)
C21_EquityBounds == []EquityTally /\ [][EquityTallyStep]_vars

\* A two-iteration query returned 0.75: one win and one tie.
C21_Witness ==
    /\ equity.pc = "returned"
    /\ ValidQuery
    /\ equity.iterations = 2
    /\ equity.wins = 1
    /\ equity.ties = 1
    /\ equity.result = <<3, 4>>

(* C22. Malformed equity descriptors fail: with n >= 1, when either          *)
(* descriptor is outside the grammar the call does not return an equity; it  *)
(* ends with the invalid-hand-notation error (ValueError "Invalid hand       *)
(* string").                                                                 *)
C22_MalformedDescriptorsFail ==
    (equity.pc # "none" /\ equity.iterations >= 1 /\ ~ValidQuery) =>
        /\ equity.pc # "returned"
        /\ equity.pc = "raised" => equity.error = "ValueError"
        /\ equity.done = 0

(* C27. Equity sampling uses disjoint cards: in every scored iteration of a  *)
(* query with two valid descriptors, the two hole cards of each hand and the *)
(* five board cards are nine pairwise distinct cards.                        *)
C27_DisjointSampling ==
    (equity.pc # "none" /\ ValidQuery /\ equity.done >= 1) =>
        /\ Len(equity.h1) = 2 /\ Len(equity.h2) = 2 /\ Len(equity.board) = 5
        /\ Cardinality(Range(equity.h1) \cup Range(equity.h2) \cup Range(equity.board)) = 9

====
